---- MODULE Spec2Model ----
(***************************************************************************)
(* Model of app.py (Vegas Happy Hour Finder): the favorites store, the     *)
(* filter pipeline and the favorites update of one script run, the time    *)
(* window test row_is_in_window and the price annotation fix_prices.       *)
(*                                                                         *)
(* Texts are sequences of one-character strings.  Times of day are whole   *)
(* hours 0..23.  A dict is a sequence of <<key, value>> pairs with         *)
(* distinct keys, in insertion order.                                      *)
(***************************************************************************)
EXTENDS Integers, Sequences, FiniteSets, TLC

VARIABLES
    file,          \* content of favorites.json on disk
    in_session,    \* "favorites" in st.session_state
    favorites,     \* st.session_state["favorites"] (<<>> while not in_session)
    day_choice,    \* st.session_state["day_choice"]
    time_choice,   \* st.session_state["time_choice"]
    run,           \* what the last script run did (history)
    text,          \* argument of fix_prices
    out,           \* fix_prices(text)
    out2,          \* fix_prices(fix_prices(text))
    pstep,         \* progress of the fix_prices harness
    w_start,       \* row["Start Time Clean"]
    w_end,         \* row["End Time Clean"]
    w_query,       \* selected_time
    w_result,      \* row_is_in_window(row)
    wstep          \* progress of the window harness

vars == << file, in_session, favorites, day_choice, time_choice, run,
           text, out, out2, pstep,
           w_start, w_end, w_query, w_result, wstep >>

appVars == << file, in_session, favorites, day_choice, time_choice, run >>
priceVars == << text, out, out2, pstep >>
windowVars == << w_start, w_end, w_query, w_result, wstep >>

----------------------------------------------------------------------------
(* Bounds *)

MaxTokens == 4      \* a text is at most this many tokens
MaxHour == 5        \* the window harness draws times from 0..MaxHour

----------------------------------------------------------------------------
(* Characters: the classes the regular expression of fix_prices uses *)

LowerChars ==
    << "a", "b", "c", "d", "e", "f", "g", "h", "i", "j", "k", "l", "m",
       "n", "o", "p", "q", "r", "s", "t", "u", "v", "w", "x", "y", "z" >>

UpperChars ==
    << "A", "B", "C", "D", "E", "F", "G", "H", "I", "J", "K", "L", "M",
       "N", "O", "P", "Q", "R", "S", "T", "U", "V", "W", "X", "Y", "Z" >>

IsLower(c) == \E i \in 1..26 : LowerChars[i] = c

IsUpper(c) == \E i \in 1..26 : UpperChars[i] = c

\* re.IGNORECASE compares letters after case folding
ToLower(c) ==
    IF IsUpper(c) THEN LowerChars[CHOOSE i \in 1..26 : UpperChars[i] = c]
    ELSE c

\* \d
IsDigit(c) == c \in {"0", "1", "2", "3", "4", "5", "6", "7", "8", "9"}

\* \s
IsSpace(c) == c \in {" ", "\t", "\n", "\r"}

\* \w
IsWord(c) == IsDigit(c) \/ IsLower(c) \/ IsUpper(c) \/ c = "_"

quantity_words ==
  << <<"p", "b", "r">>,
     <<"d", "o", "m", "e", "s", "t", "i", "c">>,
     <<"w", "e", "l", "l", "s">>,
     <<"w", "e", "l", "l">>,
     <<"d", "r", "a", "f", "t">>,
     <<"d", "r", "a", "f", "t", "s">>,
     <<"b", "e", "e", "r">>,
     <<"b", "e", "e", "r", "s">>,
     <<"w", "i", "n", "e">>,
     <<"w", "i", "n", "e", "s">>,
     <<"s", "h", "o", "t", "s">>,
     <<"s", "h", "o", "t">>,
     <<"m", "a", "r", "t", "i", "n", "i", "s">>,
     <<"m", "a", "r", "t", "i", "n", "i">>,
     <<"s", "e", "l", "t", "z", "e", "r", "s">>,
     <<"s", "e", "l", "t", "z", "e", "r">>,
     <<"r", "t", "d", "s">>,
     <<"r", "t", "d">>,
     <<"m", "a", "r", "g", "a", "r", "i", "t", "a">>,
     <<"m", "a", "r", "g", "a", "r", "i", "t", "a", "s">>,
     <<"c", "o", "c", "k", "t", "a", "i", "l">>,
     <<"c", "o", "c", "k", "t", "a", "i", "l", "s">>,
     <<"o", "y", "s", "t", "e", "r", "s">>,
     <<"a", "p", "p", "s">>,
     <<"a", "p", "p", "e", "t", "i", "z", "e", "r", "s">>,
     <<"t", "a", "p", "a", "s">> >>

----------------------------------------------------------------------------
(* fix_prices: re.sub(r"\b(\d+)(?=\s+(?!qty_pattern)\w)", repl, text,      *)
(* flags=re.IGNORECASE).  Positions are 1-based; a match is the half-open  *)
(* range pos..e-1.                                                         *)

\* is the character at position i a word character (FALSE outside the text)
WordAt(t, i) == i >= 1 /\ i <= Len(t) /\ IsWord(t[i])

\* \b just before position i
AtWordBoundary(t, i) == WordAt(t, i - 1) # WordAt(t, i)

\* variant: the pattern is compiled without re.IGNORECASE
StartsWithAt_case_sensitive(t, i, w) ==
    /\ i + Len(w) - 1 <= Len(t)
    /\ \A j \in 1..Len(w) : t[i + j - 1] = w[j]

\* does the alternative w of qty_pattern match at position i, ignoring case
StartsWithAt(t, i, w) ==
    /\ i + Len(w) - 1 <= Len(t)
    /\ \A j \in 1..Len(w) : ToLower(t[i + j - 1]) = ToLower(w[j])

\* qty_pattern, the alternation of quantity_words, matches at position i
QtyAt(t, i) ==
    \E n \in 1..Len(quantity_words) : StartsWithAt(t, i, quantity_words[n])

\* (?=\s+(?!qty_pattern)\w) at position e: \s+ may take any k >= 1 spaces
Lookahead(t, e) ==
    \E k \in 1..Len(t) :
        /\ e + k <= Len(t)
        /\ \A j \in e..(e + k - 1) : IsSpace(t[j])
        /\ ~QtyAt(t, e + k)
        /\ IsWord(t[e + k])

\* the ends e at which \d+ started at pos can stop with the lookahead true
MatchEnds(t, pos) ==
    { e \in (pos + 1)..(Len(t) + 1) :
        /\ \A j \in pos..(e - 1) : IsDigit(t[j])
        /\ Lookahead(t, e) }

\* the match of the pattern at pos: \d+ is greedy, so the longest wins;
\* 0 when the pattern does not match at pos
MatchEnd(t, pos) ==
    IF AtWordBoundary(t, pos) /\ MatchEnds(t, pos) # {}
    THEN CHOOSE e \in MatchEnds(t, pos) : \A f \in MatchEnds(t, pos) : f <= e
    ELSE 0

\* variant: repl does not look at the preceding character
repl_always_marks(t, s, e) == <<"$">> \o SubSeq(t, s, e - 1)

\* repl(match): the number, with a "$" unless one already precedes it
repl(t, s, e) ==
    IF s > 1 /\ t[s - 1] = "$"
    THEN SubSeq(t, s, e - 1)
    ELSE <<"$">> \o SubSeq(t, s, e - 1)

\* re.sub from position pos on: leftmost matches, not overlapping
RECURSIVE re_sub(_, _)
re_sub(t, pos) ==
    IF pos > Len(t) THEN <<>>
    ELSE LET e == MatchEnd(t, pos)
         IN IF e # 0
            THEN repl(t, pos, e) \o re_sub(t, e)
            ELSE <<t[pos]>> \o re_sub(t, pos + 1)

fix_prices(t) == IF t = <<>> THEN t ELSE re_sub(t, 1)

----------------------------------------------------------------------------
(* The texts the fix_prices harness draws from *)

Tokens ==
    { <<"5">>, <<"5", ".", "5", "0">>, <<" ">>, <<"$">>, <<".">>,
      <<"p", "b", "r">>, <<"P", "B", "R">>, <<"f", "o", "r">>,
      <<"c", "r", "a", "f", "t">> }

RECURSIVE TokenTexts(_)
TokenTexts(n) ==
    IF n = 0 THEN { <<>> }
    ELSE LET prev == TokenTexts(n - 1)
         IN prev \cup { p \o k : p \in prev, k \in Tokens }

Text_PBR_wells ==
    <<"3", " ", "P", "B", "R", ",", " ", "6", " ", "w", "e", "l", "l", "s">>

Text_2for1 ==
    <<"2", " ", "f", "o", "r", " ", "1", " ",
      "m", "a", "r", "g", "a", "r", "i", "t", "a", "s">>

Text_24oz == <<"5", " ", "2", "4", "o", "z", " ", "b", "e", "e", "r">>

Text_bottled ==
    <<"3", " ", "b", "o", "t", "t", "l", "e", "d", " ", "b", "e", "e", "r",
      ",", " ", "5", " ", "c", "r", "a", "f", "t", " ", "b", "e", "e", "r">>

ExampleTexts == { Text_PBR_wells, Text_2for1, Text_24oz, Text_bottled }

Texts == TokenTexts(MaxTokens) \cup ExampleTexts

----------------------------------------------------------------------------
(* row_is_in_window (the time filter of the pipeline) *)

\* pd.NaT / NaN: the missing value of a time or price column
NaT == -1

\* pd.isna
isna(v) == v = NaT

\* variant: the end of the window is inclusive
row_is_in_window_end_inclusive(start, end, selected_time) ==
    IF isna(start) \/ isna(end) THEN FALSE
    ELSE IF start <= end
         THEN start <= selected_time /\ selected_time <= end
         ELSE selected_time >= start \/ selected_time <= end

row_is_in_window(start, end, selected_time) ==
    IF isna(start) \/ isna(end) THEN FALSE
    ELSE IF start <= end
         THEN start <= selected_time /\ selected_time < end
         ELSE selected_time >= start \/ selected_time < end

----------------------------------------------------------------------------------------------------------------------------------------------
(* The dataset: load_data("happy_hours_raw.csv") *)

time_0_0 == 0          \* time(0, 0)
time_23_0 == 23        \* time(23, 0)
time_19_0 == 19        \* time(19, 0)
time_15_0 == 15        \* time(15, 0)
default_time == time_19_0

\* the "Is All Day" column
is_all_day(start, end) ==
    IF isna(start) \/ isna(end) THEN FALSE
    ELSE start = time_0_0 /\ end >= time_23_0

NoZone == "nan"

df ==
    << [zone |-> "Strip", casino |-> "Aria", restaurant |-> "Bar",
        days |-> {"Monday"}, start |-> 15, end |-> 18, price |-> 3],
       [zone |-> "Strip", casino |-> "Aria", restaurant |-> "Bar",
        days |-> {"Friday"}, start |-> 21, end |-> 2, price |-> 4],
       [zone |-> "Downtown", casino |-> "Plaza", restaurant |-> "Pub",
        days |-> {"Monday", "Friday"}, start |-> 0, end |-> 23, price |-> 4],
       [zone |-> NoZone, casino |-> "Plaza", restaurant |-> "Cafe",
        days |-> {}, start |-> NaT, end |-> NaT, price |-> NaT] >>

RowIds == DOMAIN df

\* f"{casino}::{restaurant}", as the pair of its two parts
build_fav_key(row) == << row.casino, row.restaurant >>

\* sorted(df["Location Zone"].dropna().unique()): the zones, in order
ZoneOrder == << "Downtown", "Strip" >>

zone_options == {"Any"} \cup { ZoneOrder[i] : i \in DOMAIN ZoneOrder }

casino_options(zone_choice) ==
    LET casino_base ==
            IF zone_choice # "Any"
            THEN { i \in RowIds : df[i].zone = zone_choice }
            ELSE RowIds
    IN {"Any"} \cup { df[i].casino : i \in casino_base }

Days == {"Monday", "Friday"}

day_options == {"Any"} \cup Days

\* the values the time widget and datetime.now() take
QueryTimes == {1, time_15_0, time_19_0}

valid_drink_prices == { df[i].price : i \in { j \in RowIds : ~isna(df[j].price) } }

price_min == CHOOSE p \in valid_drink_prices : \A q \in valid_drink_prices : p <= q

price_max == CHOOSE p \in valid_drink_prices : \A q \in valid_drink_prices : p >= q

\* the values of the "Max cheapest drink ($)" slider
budget_options == price_min..price_max

----------------------------------------------------------------------------
(* Dicts: sequences of <<key, value>> pairs with distinct keys *)

DictKeys(d) == { d[i][1] : i \in DOMAIN d }

\* d.get(k, default)
DictGet(d, k, default) ==
    IF k \in DictKeys(d)
    THEN d[CHOOSE i \in DOMAIN d : d[i][1] = k][2]
    ELSE default

\* d[k] = v
DictSet(d, k, v) ==
    IF k \in DictKeys(d)
    THEN [ i \in DOMAIN d |-> IF d[i][1] = k THEN << k, v >> ELSE d[i] ]
    ELSE Append(d, << k, v >>)

\* == on dicts does not look at the order
DictEq(d1, d2) ==
    /\ DictKeys(d1) = DictKeys(d2)
    /\ \A k \in DictKeys(d1) : DictGet(d1, k, "none") = DictGet(d2, k, "none")

NoTags == [tags |-> <<>>]

----------------------------------------------------------------------------
(* favorites.json *)

Absent == [kind |-> "absent", members |-> <<>>]
Unreadable == [kind |-> "unreadable", members |-> <<>>]
Malformed == [kind |-> "malformed", members |-> <<>>]
JsonList == [kind |-> "list", members |-> <<>>]
JsonScalar == [kind |-> "scalar", members |-> <<>>]
JsonObject(m) == [kind |-> "object", members |-> m]

\* json.dump(favorites, f): one member per entry, in the dict's order
json_dump(d) ==
    JsonObject([ i \in DOMAIN d |-> [name |-> d[i][1], value |-> d[i][2]] ])

\* json.load(f) of an object: a later member replaces an earlier one of
\* the same name
RECURSIVE object_to_dict(_, _)
object_to_dict(m, n) ==
    IF n = 0 THEN <<>>
    ELSE DictSet(object_to_dict(m, n - 1), m[n].name, m[n].value)

\* variant: the except clause does not catch the decode error
load_favorites_uncaught_decode(f) ==
    IF f.kind = "absent"
    THEN [data |-> <<>>, raised |-> FALSE]
    ELSE IF f.kind = "unreadable"
    THEN [data |-> <<>>, raised |-> FALSE]
    ELSE IF f.kind = "malformed"
    THEN [data |-> <<>>, raised |-> TRUE]
    ELSE IF f.kind = "object"
    THEN [data |-> object_to_dict(f.members, Len(f.members)), raised |-> FALSE]
    ELSE [data |-> <<>>, raised |-> FALSE]

\* load_favorites_from_file: the dict returned, and whether an exception
\* leaves the function.  open() raises on an unreadable file and json.load
\* on malformed text; both are caught by "except Exception: pass"
load_favorites_from_file(f) ==
    IF f.kind = "absent"
    THEN [data |-> <<>>, raised |-> FALSE]
    ELSE IF f.kind \in {"unreadable", "malformed"}
    THEN [data |-> <<>>, raised |-> FALSE]
    ELSE IF f.kind = "object"
    THEN [data |-> object_to_dict(f.members, Len(f.members)), raised |-> FALSE]
    ELSE [data |-> <<>>, raised |-> FALSE]

\* what the write does: "ok"; "open_failed", open() raises and the file is
\* as before; "write_failed", json.dump raises after open() truncated it
WriteResults == {"ok", "open_failed", "write_failed"}

\* variant: the entries are patched into the stored object
RECURSIVE patch_dict(_, _)
patch_dict(base, d) ==
    IF d = <<>> THEN base
    ELSE patch_dict(DictSet(base, d[1][1], d[1][2]), Tail(d))

save_favorites_patch(f, d, wr) ==
    [ file |-> IF wr = "ok"
               THEN json_dump(patch_dict(
                        IF f.kind = "object"
                        THEN object_to_dict(f.members, Len(f.members))
                        ELSE <<>>, d))
               ELSE IF wr = "open_failed" THEN f
               ELSE Malformed,
      raised |-> FALSE ]

\* variant: no try/except around the write
save_favorites_uncaught(f, d, wr) ==
    [ file |-> IF wr = "ok" THEN json_dump(d)
               ELSE IF wr = "open_failed" THEN f
               ELSE Malformed,
      raised |-> wr # "ok" ]

\* save_favorites_to_file: the file afterwards, and whether an exception
\* leaves the function
save_favorites_to_file(f, d, wr) ==
    [ file |-> IF wr = "ok" THEN json_dump(d)
               ELSE IF wr = "open_failed" THEN f
               ELSE Malformed,
      raised |-> FALSE ]

----------------------------------------------------------------------------
(* The filter pipeline of one script run *)

Filtered(zone_choice, casino_choice, all_day_only, day, selected_time, max_drink_budget, show_favorites_only, favs) ==
    LET f1 == IF zone_choice # "Any"
              THEN { i \in RowIds : df[i].zone = zone_choice }
              ELSE RowIds
        f2 == IF casino_choice # "Any"
              THEN { i \in f1 : df[i].casino = casino_choice }
              ELSE f1
        f3 == IF all_day_only
              THEN { i \in f2 : is_all_day(df[i].start, df[i].end) }
              ELSE f2
        f4 == IF day # "Any"
              THEN { i \in f3 : day \in df[i].days }
              ELSE f3
        f5 == { i \in f4 : row_is_in_window(df[i].start, df[i].end, selected_time) }
        f6 == { i \in f5 : ~isna(df[i].price) /\ df[i].price <= max_drink_budget }
        favorite_keys_set == DictKeys(favs)
    IN IF show_favorites_only
       THEN IF favorite_keys_set # {}
            THEN { i \in f6 : build_fav_key(df[i]) \in favorite_keys_set }
            ELSE {}
       ELSE f6

\* position of the zone in the sort order; a missing zone sorts last
ZoneRank(z) ==
    IF \E i \in DOMAIN ZoneOrder : ZoneOrder[i] = z
    THEN CHOOSE i \in DOMAIN ZoneOrder : ZoneOrder[i] = z
    ELSE Len(ZoneOrder) + 1

\* does row a come before row b in sort_values(["Location Zone",
\* "Drink Min Price"], na_position="last"); ties keep the frame's order
SortsBefore(a, b) ==
    LET za == ZoneRank(df[a].zone)
        zb == ZoneRank(df[b].zone)
        pa == IF isna(df[a].price) THEN price_max + 1 ELSE df[a].price
        pb == IF isna(df[b].price) THEN price_max + 1 ELSE df[b].price
    IN \/ za < zb
       \/ za = zb /\ pa < pb
       \/ za = zb /\ pa = pb /\ a < b

RECURSIVE sort_values(_)
sort_values(rows) ==
    IF rows = {} THEN <<>>
    ELSE LET first == CHOOSE a \in rows : \A b \in rows \ {a} : SortsBefore(a, b)
         IN << first >> \o sort_values(rows \ {first})

\* the keys of the checked rows, in display order: new_favorite_keys of the
\* card loop, edited_df.index[edited_df["Favorite"]].tolist() of the table
RECURSIVE checked_keys(_, _)
checked_keys(sorted_df, checked) ==
    IF sorted_df = <<>> THEN <<>>
    ELSE LET rest == checked_keys(Tail(sorted_df), checked)
         IN IF Head(sorted_df) \in checked
            THEN << build_fav_key(df[Head(sorted_df)]) >> \o rest
            ELSE rest

\* variant: every selected key gets a fresh entry
RECURSIVE merge_favorites_fresh_tags(_, _)
merge_favorites_fresh_tags(old_favorites, new_favorite_keys) ==
    IF new_favorite_keys = <<>> THEN <<>>
    ELSE LET n == Len(new_favorite_keys)
         IN DictSet(merge_favorites_fresh_tags(old_favorites,
                                               SubSeq(new_favorite_keys, 1, n - 1)),
                    new_favorite_keys[n], NoTags)

\* variant: the selected keys are added to the old mapping
RECURSIVE merge_favorites_additive(_, _)
merge_favorites_additive(old_favorites, new_favorite_keys) ==
    IF new_favorite_keys = <<>> THEN old_favorites
    ELSE LET n == Len(new_favorite_keys)
             key == new_favorite_keys[n]
         IN DictSet(merge_favorites_additive(old_favorites,
                                             SubSeq(new_favorite_keys, 1, n - 1)),
                    key, DictGet(old_favorites, key, NoTags))

\* { key: old_favorites.get(key, {"tags": []}) for key in new_favorite_keys }
RECURSIVE merge_favorites(_, _)
merge_favorites(old_favorites, new_favorite_keys) ==
    IF new_favorite_keys = <<>> THEN <<>>
    ELSE LET n == Len(new_favorite_keys)
             key == new_favorite_keys[n]
         IN DictSet(merge_favorites(old_favorites, SubSeq(new_favorite_keys, 1, n - 1)),
                    key, DictGet(old_favorites, key, NoTags))

\* st.session_state["favorites"] after the favorites init of a script run
FavoritesInit ==
    IF in_session THEN [data |-> favorites, raised |-> FALSE]
    ELSE load_favorites_from_file(file)

SeqRange(q) == { q[i] : i \in DOMAIN q }

NoRun ==
    [kind |-> "none", view |-> "none", before |-> {}, shown |-> {},
     selected |-> {}, save |-> "none", raised |-> FALSE]

----------------------------------------------------------------------------
(* The script run *)

\* variant: the favorites update also runs when nothing is displayed
RenderEmpty_updates(old) ==
    /\ favorites' = <<>>
    /\ file' = json_dump(<<>>)
    /\ run' = [NoRun EXCEPT !.kind = "empty", !.before = DictKeys(old),
                            !.save = "ok"]

\* the filtered frame is empty: st.warning, nothing else
RenderEmpty(old) ==
    /\ favorites' = old
    /\ UNCHANGED file
    /\ run' = [NoRun EXCEPT !.kind = "empty", !.before = DictKeys(old)]

\* the card view or the table view: the favorites become the checked rows
RenderRows(old, filtered, view, checked, wr) ==
    \E new_favorite_keys \in { checked_keys(sort_values(filtered), checked) } :
      \E new_favorites \in { merge_favorites(old, new_favorite_keys) } :
        \E saved \in { save_favorites_to_file(file, new_favorites, wr) } :
           /\ favorites' = new_favorites
           /\ file' = saved.file
           /\ run' = [kind |-> "rendered", view |-> view,
                      before |-> DictKeys(old),
                      shown |-> { build_fav_key(df[i]) : i \in filtered },
                      selected |-> SeqRange(new_favorite_keys),
                      save |-> wr, raised |-> saved.raised]

\* an exception of the favorites init ends the run there
ScriptError ==
    /\ run' = [NoRun EXCEPT !.kind = "error", !.raised = TRUE]
    /\ UNCHANGED << file, in_session, favorites, day_choice, time_choice >>

ScriptRun ==
    \E old \in { FavoritesInit.data } :
    \E zone_choice \in zone_options, selected_day \in day_options,
       selected_time \in QueryTimes, all_day_only \in BOOLEAN,
       show_favorites_only \in BOOLEAN, max_drink_budget \in budget_options :
      \E casino_choice \in casino_options(zone_choice) :
        \E filtered \in { Filtered(zone_choice, casino_choice, all_day_only,
                                   selected_day, selected_time, max_drink_budget,
                                   show_favorites_only, old) } :
           /\ IF FavoritesInit.raised
              THEN ScriptError
              ELSE /\ in_session' = TRUE
                   /\ day_choice' = selected_day
                   /\ time_choice' = selected_time
                   /\ IF filtered = {}
                      THEN RenderEmpty(old)
                      ELSE \E mobile_view \in BOOLEAN,
                              checked \in SUBSET filtered,
                              wr \in WriteResults :
                             RenderRows(old, filtered,
                                        IF mobile_view THEN "mobile" ELSE "desktop",
                                        checked, wr)
           /\ UNCHANGED << priceVars, windowVars >>

\* NOW / TONIGHT / Tomorrow Afternoon / Tomorrow Night: set the day and the
\* time and st.rerun(), which ends the run before the filters
QuickSelect ==
    \E button \in {"NOW", "TONIGHT", "Tomorrow Afternoon", "Tomorrow Night"},
       now_time \in QueryTimes, weekday_name \in Days :
        /\ IF FavoritesInit.raised
           THEN ScriptError
           ELSE /\ in_session' = TRUE
                /\ favorites' = FavoritesInit.data
                /\ time_choice' = CASE button = "NOW" -> now_time
                                    [] button = "TONIGHT" -> time_19_0
                                    [] button = "Tomorrow Afternoon" -> time_15_0
                                    [] button = "Tomorrow Night" -> time_19_0
                /\ day_choice' = weekday_name
                /\ run' = [NoRun EXCEPT !.kind = "rerun",
                                        !.before = DictKeys(FavoritesInit.data)]
                /\ UNCHANGED file
        /\ UNCHANGED << priceVars, windowVars >>

\* a new browser session: st.session_state starts empty
NewSession ==
    /\ in_session
    /\ in_session' = FALSE
    /\ favorites' = <<>>
    /\ day_choice' = "Any"
    /\ time_choice' = default_time
    /\ run' = NoRun
    /\ UNCHANGED << file, priceVars, windowVars >>

(* The values a harness leaves the other variables at *)

AppIdle ==
    /\ file = Absent
    /\ in_session = FALSE
    /\ favorites = <<>>
    /\ day_choice = "Any"
    /\ time_choice = default_time
    /\ run = NoRun

PricesIdle ==
    /\ text = <<>>
    /\ out = <<>>
    /\ out2 = <<>>
    /\ pstep = "idle"

WindowIdle ==
    /\ w_start = NaT
    /\ w_end = NaT
    /\ w_query = 0
    /\ w_result = FALSE
    /\ wstep = "idle"

KeyA == << "Aria", "Bar" >>
KeyB == << "Plaza", "Pub" >>
KeyGone == << "Gone", "Bar" >>

Member(k, tags) == [name |-> k, value |-> [tags |-> tags]]

\* the contents favorites.json starts with
InitialFiles ==
    { Absent, Unreadable, Malformed, JsonList, JsonScalar,
      JsonObject(<<>>),
      JsonObject(<< Member(KeyA, <<"x">>) >>),
      JsonObject(<< Member(KeyB, <<>>), Member(KeyA, <<"x">>) >>),
      JsonObject(<< Member(KeyGone, <<"y">>), Member(KeyB, <<"z">>) >>),
      JsonObject(<< Member(KeyA, <<>>), Member(KeyA, <<"x">>) >>) }

Init ==
    /\ file \in InitialFiles
    /\ in_session = FALSE
    /\ favorites = <<>>
    /\ day_choice = "Any"
    /\ time_choice = default_time
    /\ run = NoRun
    /\ PricesIdle
    /\ WindowIdle

Next == ScriptRun \/ QuickSelect \/ NewSession

Spec == Init /\ [][Next]_vars

----------
(* Harness of fix_prices *)

InitPrices ==
    /\ text \in Texts
    /\ out = <<>>
    /\ out2 = <<>>
    /\ pstep = "in"
    /\ AppIdle
    /\ WindowIdle

Annotate ==
    /\ pstep = "in"
    /\ out' = fix_prices(text)
    /\ pstep' = "out"
    /\ UNCHANGED << text, out2, appVars, windowVars >>

Reannotate ==
    /\ pstep = "out"
    /\ out2' = fix_prices(out)
    /\ pstep' = "again"
    /\ UNCHANGED << text, out, appVars, windowVars >>

NextPrices == Annotate \/ Reannotate

SpecPrices == InitPrices /\ [][NextPrices]_vars

----------------------------------------------------------------------------
(* Harness of row_is_in_window *)

Hours == 0..MaxHour

InitWindow ==
    /\ w_start \in Hours \cup {NaT}
    /\ w_end \in Hours \cup {NaT}
    /\ w_query \in Hours
    /\ w_result = FALSE
    /\ wstep = "in"
    /\ AppIdle
    /\ PricesIdle

CheckWindow ==
    /\ wstep = "in"
    /\ w_result' = row_is_in_window(w_start, w_end, w_query)
    /\ wstep' = "out"
    /\ UNCHANGED << w_start, w_end, w_query, appVars, priceVars >>

NextWindow == CheckWindow

SpecWindow == InitWindow /\ [][NextWindow]_vars

----------------------------------------------------------------------------
(* Properties of row_is_in_window *)

\* C1: a missing start or end gives FALSE; a same-day window (start <= end)
\* matches exactly start <= query < end; an overnight window (start > end)
\* matches exactly query >= start or query < end; the result is always a
\* boolean.
C1_WindowContract ==
    wstep = "out" =>
        /\ w_result \in BOOLEAN
        /\ (w_start = NaT \/ w_end = NaT) => (w_result = FALSE)
        /\ (w_start # NaT /\ w_end # NaT /\ w_start <= w_end) =>
               (w_result <=> (w_start <= w_query /\ w_query < w_end))
        /\ (w_start # NaT /\ w_end # NaT /\ w_start > w_end) =>
               (w_result <=> (w_query >= w_start \/ w_query < w_end))

\* an overnight window matched by a query after midnight, and the end of a
\* window not matched
C1_Witness ==
    /\ wstep = "out"
    /\ w_start # NaT /\ w_end # NaT
    /\ w_start > w_end
    /\ w_query < w_end
    /\ w_result = TRUE

----------------------------------------------------------------------------
(* Properties of fix_prices *)

Annotated == pstep \in {"out", "again"}

\* the end (exclusive) of the run of digits that starts at s
DigitRunEnd(t, s) ==
    CHOOSE e \in (s + 1)..(Len(t) + 1) :
        /\ \A j \in s..(e - 1) : IsDigit(t[j])
        /\ (e = Len(t) + 1 \/ ~IsDigit(t[e]))

\* the first position from e on that is not whitespace
SkipSpaces(t, e) ==
    CHOOSE w \in e..(Len(t) + 1) :
        /\ \A j \in e..(w - 1) : IsSpace(t[j])
        /\ (w = Len(t) + 1 \/ ~IsSpace(t[w]))

\* the end (exclusive) of the word that starts at w
WordEnd(t, w) ==
    CHOOSE e \in (w + 1)..(Len(t) + 1) :
        /\ \A j \in w..(e - 1) : IsWord(t[j])
        /\ (e = Len(t) + 1 \/ ~IsWord(t[e]))

\* the starts of the bare numbers: runs of digits not preceded by a word
\* character nor by "$"
BareNumberStarts(t) ==
    { s \in 1..Len(t) :
        /\ IsDigit(t[s])
        /\ (s = 1 \/ (~IsWord(t[s - 1]) /\ t[s - 1] # "$")) }

\* the position of the word that follows the number at s after whitespace,
\* 0 when none does
FollowingWord(t, s) ==
    LET e == DigitRunEnd(t, s)
        w == SkipSpaces(t, e)
    IN IF w > e /\ w <= Len(t) /\ IsWord(t[w]) THEN w ELSE 0

\* the text with a "$" put in front of each position of S
RECURSIVE InsertAt(_, _, _)
InsertAt(t, S, i) ==
    IF i > Len(t) THEN <<>>
    ELSE (IF i \in S THEN <<"$", t[i]>> ELSE <<t[i]>>) \o InsertAt(t, S, i + 1)

\* the word at w is "for" in any case, or is all upper case and at most
\* five characters long
ForOrShortUpper(t, w) ==
    LET word == SubSeq(t, w, WordEnd(t, w) - 1)
    IN \/ /\ Len(word) = 3
          /\ ToLower(word[1]) = "f"
          /\ ToLower(word[2]) = "o"
          /\ ToLower(word[3]) = "r"
       \/ /\ Len(word) <= 5
          /\ \A j \in 1..Len(word) : IsUpper(word[j])

\* the text from w on begins with a quantity word, in any case
BeginsWithQuantityWord(t, w) ==
    \E n \in 1..Len(quantity_words) :
        LET q == quantity_words[n]
        IN /\ w + Len(q) - 1 <= Len(t)
           /\ \A j \in 1..Len(q) : ToLower(t[w + j - 1]) = q[j]

Text_PBR_wells_claimed ==
    <<"3", " ", "P", "B", "R", ",", " ", "$", "6", " ", "w", "e", "l", "l", "s">>

Text_2for1_claimed ==
    <<"2", " ", "f", "o", "r", " ", "$", "1", " ",
      "m", "a", "r", "g", "a", "r", "i", "t", "a", "s">>

Text_2for1_code ==
    <<"$", "2", " ", "f", "o", "r", " ", "1", " ",
      "m", "a", "r", "g", "a", "r", "i", "t", "a", "s">>

RECURSIVE NumericRunStarts(_, _)
NumericRunStarts(t, pos) ==
    IF pos > Len(t) THEN {}
    ELSE IF ~IsDigit(t[pos]) THEN NumericRunStarts(t, pos + 1)
    ELSE LET e == DigitRunEnd(t, pos)
             f == IF e + 1 <= Len(t) /\ t[e] = "." /\ IsDigit(t[e + 1])
                  THEN DigitRunEnd(t, e + 1)
                  ELSE e
         IN {pos} \cup NumericRunStarts(t, f)

\* o is t with single "$" put in front of some of the positions of S and
\* nothing else changed; i and j are the positions reached in t and o
RECURSIVE OnlyPrefixed(_, _, _, _, _)
OnlyPrefixed(t, o, S, i, j) ==
    IF i > Len(t) THEN j > Len(o)
    ELSE IF j > Len(o) THEN FALSE
    ELSE IF o[j] = t[i] THEN OnlyPrefixed(t, o, S, i + 1, j + 1)
    ELSE /\ o[j] = "$"
         /\ i \in S
         /\ j + 1 <= Len(o)
         /\ o[j + 1] = t[i]
         /\ OnlyPrefixed(t, o, S, i + 1, j + 2)

\* C4: the output is the input with "$" inserted only in front of whole
\* numeric runs (digits with an optional ".digits"), one per run at most,
\* never inside a run, and nothing else added or removed.
C4_OnlyWholeRunsPrefixed ==
    Annotated => OnlyPrefixed(text, out, NumericRunStarts(text, 1), 1, 1)

\* the places where "$$" stands in front of a digit
DoubleMarks(t) ==
    { i \in 1..Len(t) :
        /\ i + 2 <= Len(t)
        /\ t[i] = "$"
        /\ t[i + 1] = "$"
        /\ IsDigit(t[i + 2]) }

\* C5: annotating an annotated text changes nothing, and no number that
\* has a "$" in front of it gets a second one.
C5_Idempotent ==
    /\ pstep = "again" => out2 = out
    /\ Annotated => Cardinality(DoubleMarks(out)) = Cardinality(DoubleMarks(text))

\* a text that the first pass changed, annotated a second time
C5_Witness ==
    /\ pstep = "again"
    /\ out # text
    /\ \E i \in 1..Len(out) : out[i] = "$" /\ i < Len(out) /\ IsDigit(out[i + 1])
    /\ out2 = out

----------------------------------------------------------------------------
(* Properties of the favorites store and of the script run *)

\* the names of the members of the object in the file
FileNames(f) == { f.members[i].name : i \in DOMAIN f.members }

\* d is the mapping that the object in f denotes
DenotesObject(d, f) ==
    /\ DictKeys(d) = FileNames(f)
    /\ \A i \in DOMAIN f.members :
           (\A j \in DOMAIN f.members :
                (j > i => f.members[j].name # f.members[i].name))
           => DictGet(d, f.members[i].name, "none") = f.members[i].value

\* C2: after a render of rows in either view the key set of the favorites
\* is the set of selected keys; a selected key of the old mapping keeps its
\* entry, a newly selected key gets no tags, every other old key is gone.
C2_MergeExact ==
    [][ run'.kind = "rendered" =>
          LET old == FavoritesInit.data
          IN /\ run'.view \in {"mobile", "desktop"}
             /\ DictKeys(favorites') = run'.selected
             /\ Len(favorites') = Cardinality(run'.selected)
             /\ \A k \in run'.selected :
                    DictGet(favorites', k, "none") =
                        IF k \in DictKeys(old) THEN DictGet(old, k, "none")
                        ELSE [tags |-> <<>>] ]_vars

\* a card-view render that keeps a tagged entry, adds a key and drops one
C2_Witness ==
    /\ run.kind = "rendered"
    /\ run.view = "mobile"
    /\ \E k \in run.selected \cap run.before :
           DictGet(favorites, k, NoTags).tags # <<>>
    /\ run.selected \ run.before # {}
    /\ run.before \ run.selected # {}

\* C6: the favorites init of a new session raises nothing and yields the
\* empty mapping for an absent, unreadable or malformed file and for a
\* list or scalar, and the stored mapping for an object.
C6_LoadNeverFails ==
    [][ (~in_session /\ run' # run) =>
          /\ run'.kind # "error"
          /\ in_session'
          /\ run'.before = (IF file.kind = "object" THEN FileNames(file) ELSE {})
          /\ run'.kind \in {"empty", "rerun"} =>
                 IF file.kind = "object"
                 THEN DenotesObject(favorites', file)
                 ELSE favorites' = <<>> ]_vars

\* a session that started on a malformed file and has empty favorites
C6_Witness ==
    /\ in_session
    /\ run.kind \in {"empty", "rerun"}
    /\ file.kind = "malformed"
    /\ favorites = <<>>

\* C7: after a render whose write succeeded the file holds exactly the
\* favorites: the same keys, each with its entry, and loading it gives a
\* mapping equal to the favorites.
C7_SaveReplaces ==
    (run.kind = "rendered" /\ run.save = "ok") =>
        /\ file.kind = "object"
        /\ FileNames(file) = DictKeys(favorites)
        /\ Len(file.members) = Len(favorites)
        /\ \A i \in DOMAIN file.members :
               file.members[i].value = DictGet(favorites, file.members[i].name, "none")
        /\ ~load_favorites_from_file(file).raised
        /\ DictEq(load_favorites_from_file(file).data, favorites)

\* a successful save of a non-empty mapping that dropped an earlier key
C7_Witness ==
    /\ run.kind = "rendered"
    /\ run.save = "ok"
    /\ favorites # <<>>
    /\ run.before \ DictKeys(favorites) # {}
    /\ file = json_dump(favorites)

\* C8: when the write fails the run ends without an exception and the
\* session favorites are the newly merged mapping.
C8_FailedSaveSilent ==
    (run.kind = "rendered" /\ run.save # "ok") =>
        /\ ~run.raised
        /\ in_session
        /\ DictKeys(favorites) = run.selected

\* a failed write after which the session favorites differ from the file
C8_Witness ==
    /\ run.kind = "rendered"
    /\ run.save \in {"open_failed", "write_failed"}
    /\ favorites # <<>>
    /\ ~DictEq(load_favorites_from_file(file).data, favorites)

\* C9: after a render of at least one row the favorite keys, and the keys
\* of the file when the write succeeded, are among the keys of the rows
\* displayed.
C9_FavoritesWithinDisplayed ==
    run.kind = "rendered" =>
        /\ run.shown # {}
        /\ DictKeys(favorites) \subseteq run.shown
        /\ run.save = "ok" => FileNames(file) \subseteq run.shown

\* a table-view render that lost a favorite none of whose rows was shown
C9_Witness ==
    /\ run.kind = "rendered"
    /\ run.view = "desktop"
    /\ run.save = "ok"
    /\ run.before \ run.shown # {}
    /\ run.selected = run.before \cap run.shown

\* C10: a run whose filtered result is empty leaves the session favorites
\* as the favorites init made them and does not write the file.
C10_EmptyRenderKeepsFavorites ==
    [][ run'.kind = "empty" =>
          /\ favorites' = FavoritesInit.data
          /\ file' = file
          /\ run'.save = "none" ]_vars

\* an empty result with favorites that stayed
C10_Witness ==
    /\ run.kind = "empty"
    /\ favorites # <<>>
    /\ file.kind # "object"

====
